---- MODULE Spec2Model ----
(***************************************************************************)
(* The delivery pipeline of the StellaNow TypeScript SDK: the FifoQueue    *)
(* message source (queue + in-flight map), the StellaNowSDK facade with    *)
(* its event loop (pump), and the StellaNowMqttSink with its connection    *)
(* monitor.                                                                *)
(*                                                                         *)
(* The repository holds two revisions of the MQTT sink behind the same     *)
(* IStellaNowSink interface.  The variable rev selects the one a run uses: *)
(*   "promise"  : sendMessageAsync awaits the publish callback under the   *)
(*                sink mutex and rejects on a publish error;               *)
(*   "callback" : the publish is fire-and-forget, the send returns at      *)
(*                once, and the publish callback either raises the ack     *)
(*                signal or forces the transport closed.                   *)
(* An event is identified by its message id (crypto.randomUUID is a fresh  *)
(* id); a message is given by the length of its entity-reference list.     *)
(*                                                                         *)
(* The OIDC authentication (discovery document, refresh and password       *)
(* grants) exists in two revisions as well, selected by authRev:           *)
(*   "strategy" : OidcMqttAuthStrategy, whose refreshTokensAsync throws    *)
(*                when the refresh grant fails;                            *)
(*   "service"  : StellaNowAuthenticationService, whose refreshTokensAsync *)
(*                returns false there, so that authenticate() logs in.     *)
(* Spec is the pipeline, QueueSpec the FifoQueue called directly, AuthSpec  *)
(* authenticate() and auth(client) called directly, and SignalSpec a       *)
(* StellaNowSignal called directly.                                        *)
(***************************************************************************)
EXTENDS Integers, Sequences, FiniteSets, TLC

\* ---------------------------------------------------------------- bounds
MaxEvents == 2
MaxRefs == 1
MaxAttempt == 6
MaxQueue == 3
MaxGrants == 4
MaxListeners == 2
MaxOrphans == 1
MaxPumps == 2

\* ------------------------------------------------------ program constants
batchSize == 100
BaseReconnectDelayMs == 5000
MaxReconnectDelayMs == 60000
ConnectedPollMs == 2500

None == 0
Ids == 1..MaxEvents

VARIABLES
    items,      \* FifoQueue.items: the plain queue, head first
    inFlight,   \* FifoQueue.inFlight: the Map's keys in insertion order
    nextId,     \* the next fresh message id
    rev,        \* the sink revision in use
    client,     \* StellaNowMqttSink.mqttClient !== null
    connected,  \* mqttClient.connected
    monTask,    \* StellaNowMqttSink.connectionMonitorTask is set
    monCancel,  \* StellaNowMqttSink.cancellationToken: "null", "live", "cancelled"
    monPc,      \* where the monitor loop stands
    attempt,    \* the monitor's attempt counter
    delayMs,    \* the delay the monitor last chose to sleep
    cancelled,  \* StellaNowSDK.cancellationToken.isCancelled
    pumpPc,     \* where runEventLoop stands
    batch,      \* events of the current batch whose send has not settled
    pending,    \* publishes handed to the transport, callback outstanding
    stopPc,     \* where StellaNowSDK.stop stands
    acked,      \* history: ids markMessageAck was called for by the ack signal
    requeued,   \* history: ids the pump requeued after a failed send, not dequeued since
    pubErr,     \* history: ids whose last publish raised a transport error, not dequeued since
    fails,      \* history: consecutive failed connection attempts
    last,       \* history: the last API call, its argument and its result
    enqLog,     \* history: events enqueued in the current enqueue-then-dequeue run
    deqLog,     \* history: events returned by tryDequeue in that run
    fifoRun,    \* history: "enq", "deq" or "broken"
    mutex,      \* StellaNowMqttSink.mutex: "free", or who holds it: "stop", "send"
    pumps,      \* history: runEventLoop tasks launched and not yet ended
    authRev,    \* the authentication revision in use
    tokenResponse,  \* the stored token response, or NoToken
    configInstance, \* the discovery document is cached
    grantSeq,   \* the serial number of the next token the server issues
    authLast,   \* history: what the last authenticate() call did
    options,    \* mqttClient.options: username, password and clientId
    sinkClientId,   \* credentials.sinkClientId is not empty
    authCall,   \* history: the auth(client) call this step made, if any
    emitted,    \* the signal this step triggered or the warning it logged, if any
    listeners,  \* StellaNowSignal.listeners of a signal
    notified,   \* history: the listeners the last trigger() invoked, in order
    sigLast,    \* history: the last call made on the signal
    sigThrown,  \* history: the last call on the signal threw
    orphans,    \* monitor loops dispose() detached from the sink, still running
    disposePc,  \* where a dispose() stands: "none", or "wait" for the lock
    wqPc,       \* where the whole-queue eventLoop of the earlier facade stands
    recovered   \* history: reEnqueueAll has moved an entry back to the queue

queueVars == <<items, inFlight>>
sinkVars == <<client, connected, monTask, monCancel, monPc, attempt, delayMs, pending, mutex>>
pumpVars == <<cancelled, pumpPc, batch, stopPc, pumps>>
histVars == <<acked, requeued, pubErr, fails>>
logVars == <<enqLog, deqLog, fifoRun>>
authVars == <<authRev, tokenResponse, configInstance, grantSeq, authLast, options,
              sinkClientId, authCall>>
signalVars == <<listeners, notified, sigLast, sigThrown>>
disposeVars == <<orphans, disposePc>>
vars == <<items, inFlight, nextId, rev, client, connected, monTask, monCancel,
          monPc, attempt, delayMs, cancelled, pumpPc, batch, pending, stopPc,
          acked, requeued, pubErr, fails, last, enqLog, deqLog, fifoRun, mutex,
          pumps, authRev, tokenResponse, configInstance, grantSeq, authLast,
          options, sinkClientId, authCall, emitted, listeners, notified, sigLast,
          sigThrown, orphans, disposePc, wqPc, recovered>>

\* --------------------------------------------------------------- helpers
Range(s) == {s[i] : i \in 1..Len(s)}

Min(a, b) == IF a <= b THEN a ELSE b

RECURSIVE Pow2(_)
Pow2(n) == IF n = 0 THEN 1 ELSE 2 * Pow2(n - 1)

\* Map.prototype.set on the key sequence: an existing key keeps its place.
MapSet(m, k) == IF k \in Range(m) THEN m ELSE Append(m, k)

\* Map.prototype.delete on the key sequence.
MapDelete(m, k) == SelectSeq(m, LAMBDA x : x # k)

\* The step triggers no signal and logs no warning.
NoSignal == [name |-> "none", arg |-> None]

\* ------------------------------------------------------------- FifoQueue
enqueueFront(q, e) == <<e>> \o q

enqueue(q, e) == Append(q, e)

tryDequeueNoTrack(q, m) ==
    IF q = <<>>
    THEN [item |-> None, items |-> q, inFlight |-> m]
    ELSE [item |-> Head(q), items |-> Tail(q), inFlight |-> m]

tryDequeueFromTail(q, m) ==
    IF q = <<>>
    THEN [item |-> None, items |-> q, inFlight |-> m]
    ELSE [item |-> q[Len(q)], items |-> SubSeq(q, 1, Len(q) - 1),
          inFlight |-> MapSet(m, q[Len(q)])]

tryDequeue(q, m) ==
    IF q = <<>>
    THEN [item |-> None, items |-> q, inFlight |-> m]
    ELSE [item |-> Head(q), items |-> Tail(q), inFlight |-> MapSet(m, Head(q))]

markMessageAckClear(m, id) == IF id \in Range(m) THEN <<>> ELSE m

markMessageAckNoop(m, id) == m

markMessageAck(m, id) == MapDelete(m, id)

RECURSIVE EnqueueEach(_, _)
EnqueueEach(q, m) ==
    IF m = <<>> THEN q ELSE EnqueueEach(enqueue(q, Head(m)), Tail(m))

reEnqueueAllKeep(q, m) == [items |-> EnqueueEach(q, m), inFlight |-> m]

reEnqueueAll(q, m) == [items |-> EnqueueEach(q, m), inFlight |-> <<>>]

isEmpty(q) == Len(q) = 0

length(q) == Len(q)

numberInFlight(m) == Len(m)


\* ------------------------------------------------- events and the facade
\* The result of StellaNowEventWrapper.fromWrapper for a wrapper with n entity
\* references and message id id: the event, or the error it throws.
fromWrapperNoCheck(n, id) == [thrown |-> "none", event |-> id]

fromWrapper(n, id) ==
    IF n = 0
    THEN [thrown |-> "Error", event |-> None]
    ELSE [thrown |-> "none", event |-> id]

\* The error classes declared by the SDK (StellaNowError and its subclasses).
TypedErrors ==
    {"StellaNowError", "MissingEnvVariableError", "InvalidArgumentError",
     "UnknownTypeError", "OidcAuthenticationError", "DiscoveryDocumentError",
     "TokenValidationError", "SinkInitializationError", "SinkOperationError",
     "InvalidUuidError", "SdkCreationError"}

sendEvent(q, e) == enqueue(q, e)

\* StellaNowSDK.sendMessage(message), the message having n entity references.
SendMessage(n) ==
    LET w == fromWrapper(n, nextId) IN
    IF w.thrown # "none"
    THEN /\ last' = [op |-> "sendMessage", arg |-> n, ret |-> None, thrown |-> w.thrown, found |-> FALSE]
         /\ UNCHANGED <<queueVars, nextId, rev, authVars, sinkVars, pumpVars, histVars, logVars,
                        signalVars, disposeVars, wqPc, recovered>>
         /\ emitted' = NoSignal
    ELSE /\ nextId <= MaxEvents
         /\ items' = sendEvent(items, w.event)
         /\ nextId' = nextId + 1
         /\ last' = [op |-> "sendMessage", arg |-> n, ret |-> w.event, thrown |-> "none", found |-> FALSE]
         /\ UNCHANGED <<inFlight, rev, authVars, sinkVars, pumpVars, histVars, logVars,
                        signalVars, disposeVars, wqPc, recovered>>
         /\ emitted' = NoSignal

\* The batch loop of eventLoop: dequeue while the queue is not empty and the
\* batch is smaller than batchSize.
RECURSIVE DrainBatch(_, _, _)
DrainBatch(q, m, b) ==
    IF ~isEmpty(q) /\ Len(b) < batchSize
    THEN LET d == tryDequeue(q, m) IN
         DrainBatch(d.items, d.inFlight, IF d.item # None THEN Append(b, d.item) ELSE b)
    ELSE [items |-> q, inFlight |-> m, batch |-> b]

\* The pump's handler of a rejected send: .catch(err => source.enqueue(event)).
onSendRejectedDrop(q, e) == q

onSendRejectedTwice(q, e) == enqueue(enqueue(q, e), e)

onSendRejected(q, e) == enqueue(q, e)

RECURSIVE RejectAll(_, _)
RejectAll(q, b) ==
    IF b = <<>> THEN q ELSE RejectAll(onSendRejected(q, Head(b)), Tail(b))

\* await this.mutex.acquire(), m telling who holds the lock: the caller goes
\* on when nobody holds it and waits otherwise.
acquireNoWait(m) == TRUE

acquire(m) == m = "free"

\* StellaNowMqttSink.start() inside its locked section, task telling whether
\* connectionMonitorTask is set: on a started sink it throws and launches
\* nothing.  On every path the lock is released.
sinkStartNoGuard(task, r) == [thrown |-> "none", launch |-> TRUE, mutex |-> "free"]

sinkStart(task, r) ==
    IF task
    THEN [thrown |-> IF r = "callback" THEN "SinkInitializationError" ELSE "Error",
          launch |-> FALSE, mutex |-> "free"]
    ELSE [thrown |-> "none", launch |-> TRUE, mutex |-> "free"]

\* The facade's cancellation token across start(), c telling whether it is
\* cancelled: it is the one made by the constructor, and start() leaves it
\* as it is.
cancellationTokenRenewed(c) == FALSE

cancellationTokenOnStart(c) == c

\* StellaNowSDK.start(): sink.start(), and when that did not throw the event
\* loop is launched.
Start ==
    /\ acquire(mutex)
    /\ LET s == sinkStart(monTask, rev) IN
       /\ mutex' = s.mutex
       /\ last' = [op |-> "start", arg |-> None, ret |-> None, thrown |-> s.thrown,
                   found |-> monTask]
       /\ IF s.launch
          THEN /\ client' = TRUE
               /\ monCancel' = "live"
               /\ monTask' = TRUE
               /\ monPc' = "check"
               /\ attempt' = 0
               /\ fails' = 0
               /\ pumpPc' = "loop"
               /\ pumps' = pumps + 1
               /\ stopPc' = "none"
          ELSE UNCHANGED <<client, monCancel, monTask, monPc, attempt, fails, pumpPc,
                           pumps, stopPc>>
    /\ cancelled' = cancellationTokenOnStart(cancelled)
    /\ emitted' = NoSignal
    /\ UNCHANGED <<signalVars, disposeVars, wqPc, recovered>>
    /\ UNCHANGED <<queueVars, nextId, rev, authVars, connected, delayMs, pending,
                   batch, acked, requeued, pubErr, logVars>>

\* StellaNowSDK.stop(), first part: cancel the pump's token, then await the
\* event loop task if there is one.
StopBegin ==
    /\ stopPc = "none"
    /\ cancelled' = TRUE
    /\ stopPc' = "awaitPump"
    /\ emitted' = NoSignal
    /\ UNCHANGED <<signalVars, disposeVars, wqPc, recovered>>
    /\ UNCHANGED <<queueVars, nextId, rev, authVars, sinkVars, pumpPc, batch, pumps,
                   histVars, last, logVars>>

\* await this.eventLoopTask in stop(): there is no task, or it has ended.
eventLoopTaskNotAwaited(pc) == TRUE

eventLoopTaskDone(pc) == pc \in {"off", "exited"}

\* The event loop task has ended: sink.stop() takes the mutex and
\* disconnectAsync cancels the monitor's token and awaits the monitor.
StopSink ==
    /\ stopPc = "awaitPump"
    /\ eventLoopTaskDone(pumpPc)
    /\ acquire(mutex)
    /\ mutex' = "stop"
    /\ stopPc' = "awaitMon"
    /\ monCancel' = IF monCancel = "null" THEN "null" ELSE "cancelled"
    /\ emitted' = NoSignal
    /\ UNCHANGED <<signalVars, disposeVars, wqPc, recovered>>
    /\ UNCHANGED <<queueVars, nextId, rev, authVars, client, connected, monTask, monPc,
                   attempt, delayMs, pending, cancelled, pumps, pumpPc, batch, histVars,
                   last, logVars>>

\* await this.connectionMonitorTask in disconnectAsync: there is no task, or
\* the monitor loop has returned.
monitorNotAwaited(task, pc) == TRUE

monitorExited(task, pc) == task => pc = "done"

\* The monitor has exited: disconnectAsync ends the client, clears the task and
\* the token, and stop releases the mutex.
StopFinish ==
    /\ stopPc = "awaitMon"
    /\ monitorExited(monTask, monPc)
    /\ connected' = FALSE
    /\ monTask' = FALSE
    /\ monCancel' = "null"
    /\ mutex' = "free"
    /\ stopPc' = "stopped"
    /\ emitted' = NoSignal
    /\ UNCHANGED <<signalVars, disposeVars, wqPc, recovered>>
    /\ UNCHANGED <<queueVars, nextId, rev, authVars, client, monPc, attempt, delayMs,
                   pending, cancelled, pumps, pumpPc, batch, histVars, last, logVars>>

\* The first test of eventLoop, conn being sink.IsConnected: not connected,
\* the iteration logs a warning and returns.
skipTickNever(conn) == FALSE

skipTick(conn) == ~conn

\* One pass of runEventLoop's while: the cancellation check, then eventLoop up
\* to its first suspension.
PumpLoop ==
    /\ pumpPc = "loop"
    /\ IF cancelled
       THEN /\ pumpPc' = "exited"
            /\ pumps' = pumps - 1
            /\ emitted' = NoSignal
            /\ UNCHANGED <<queueVars, batch, pending, requeued, pubErr, mutex>>
       ELSE IF skipTick(connected)
       THEN /\ pumpPc' = "delay"
            /\ emitted' = [name |-> "warn: Sink is not connected", arg |-> None]
            /\ UNCHANGED <<queueVars, batch, pending, requeued, pubErr, mutex, pumps>>
       ELSE IF isEmpty(items)
       THEN /\ pumpPc' = "delay"
            /\ emitted' = NoSignal
            /\ UNCHANGED <<queueVars, batch, pending, requeued, pubErr, mutex, pumps>>
       ELSE LET d == DrainBatch(items, inFlight, <<>>) IN
            /\ emitted' = NoSignal
            /\ items' = d.items
            /\ inFlight' = d.inFlight
            /\ requeued' = requeued \ Range(d.batch)
            /\ pubErr' = pubErr \ Range(d.batch)
            /\ UNCHANGED pumps
            /\ IF rev = "promise"
               THEN /\ batch' = d.batch
                    /\ pending' = {Head(d.batch)}
                    /\ mutex' = "send"
                    /\ pumpPc' = "batch"
               ELSE /\ batch' = <<>>
                    /\ pending' = pending \cup Range(d.batch)
                    /\ UNCHANGED mutex
                    /\ pumpPc' = "delay"
    /\ UNCHANGED <<signalVars, disposeVars, wqPc, recovered>>
    /\ UNCHANGED <<nextId, rev, authVars, client, connected, monTask, monCancel, monPc,
                   attempt, delayMs, cancelled, stopPc, acked, fails, last, logVars>>

\* The loopDelayMs timer of runEventLoop fires.
PumpWake ==
    /\ pumpPc = "delay"
    /\ pumpPc' = "loop"
    /\ emitted' = NoSignal
    /\ UNCHANGED <<signalVars, disposeVars, wqPc, recovered>>
    /\ UNCHANGED <<queueVars, nextId, rev, authVars, sinkVars, cancelled, pumps, batch, stopPc,
                   histVars, last, logVars>>


\* ------------------------------------------------------------- the sink
\* sendMessageAsync(event) inside its locked section, conn telling
\* IsConnected: not connected, it throws MqttConnectionException and hands
\* nothing to the transport.
sendMessageAsyncNoCheck(conn) == [thrown |-> "none", published |-> TRUE]

sendMessageAsync(conn) ==
    IF conn
    THEN [thrown |-> "none", published |-> TRUE]
    ELSE [thrown |-> "MqttConnectionException", published |-> FALSE]

\* After a send of the "promise" sink settles and releases the mutex, the
\* sends of the rest of the batch take the mutex in turn: the next one
\* publishes if the sink is connected, and otherwise every one of them is
\* rejected at once and handled by the pump's catch.
AfterSettle(q, rest, conn) ==
    IF rest = <<>>
    THEN [items |-> q, batch |-> <<>>, pending |-> {}, requeued |-> {}, pumpPc |-> "delay",
          mutex |-> "free"]
    ELSE IF sendMessageAsync(conn).published
    THEN [items |-> q, batch |-> rest, pending |-> {Head(rest)}, requeued |-> {},
          pumpPc |-> "batch", mutex |-> "send"]
    ELSE [items |-> RejectAll(q, rest), batch |-> <<>>, pending |-> {},
          requeued |-> Range(rest), pumpPc |-> "delay", mutex |-> "free"]

\* "promise" sink, the publish callback without error: the sink triggers
\* OnMessageAck(e), whose subscriber is markMessageAck, and resolves the send.
PublishOkPromise(e) ==
    /\ rev = "promise"
    /\ e \in pending
    /\ connected
    /\ inFlight' = markMessageAck(inFlight, e)
    /\ acked' = acked \cup {e}
    /\ LET a == AfterSettle(items, Tail(batch), connected) IN
       /\ items' = a.items
       /\ batch' = a.batch
       /\ pending' = a.pending
       /\ requeued' = requeued \cup a.requeued
       /\ pumpPc' = a.pumpPc
       /\ mutex' = a.mutex
    /\ emitted' = [name |-> "OnMessageAck", arg |-> e]
    /\ UNCHANGED <<signalVars, disposeVars, wqPc, recovered>>
    /\ UNCHANGED <<nextId, rev, authVars, client, connected, monTask, monCancel, monPc, attempt,
                   delayMs, cancelled, pumps, stopPc, pubErr, fails, last, logVars>>

\* "promise" sink, the publish callback with an error: the send is rejected
\* and the pump's catch requeues the event.
PublishErrPromise(e) ==
    /\ rev = "promise"
    /\ e \in pending
    /\ pubErr' = pubErr \cup {e}
    /\ LET a == AfterSettle(onSendRejected(items, e), Tail(batch), connected) IN
       /\ items' = a.items
       /\ batch' = a.batch
       /\ pending' = a.pending
       /\ requeued' = requeued \cup {e} \cup a.requeued
       /\ pumpPc' = a.pumpPc
       /\ mutex' = a.mutex
    /\ emitted' = NoSignal
    /\ UNCHANGED <<signalVars, disposeVars, wqPc, recovered>>
    /\ UNCHANGED <<inFlight, nextId, rev, authVars, client, connected, monTask, monCancel, monPc,
                   attempt, delayMs, cancelled, pumps, stopPc, acked, fails, last, logVars>>

\* "callback" sink, the publish callback without error: the sink triggers
\* OnMessageAck(e), whose subscriber is markMessageAck.
PublishOkCallback(e) ==
    /\ rev = "callback"
    /\ e \in pending
    /\ connected
    /\ inFlight' = markMessageAck(inFlight, e)
    /\ acked' = acked \cup {e}
    /\ pending' = pending \ {e}
    /\ emitted' = [name |-> "OnMessageAck", arg |-> e]
    /\ UNCHANGED <<signalVars, disposeVars, wqPc, recovered>>
    /\ UNCHANGED <<items, nextId, rev, authVars, client, mutex, connected, monTask, monCancel, monPc,
                   attempt, delayMs, pumpVars, requeued, pubErr, fails, last, logVars>>

\* "promise" sink, the publish callback without error and without a publish
\* packet carrying a message id: no signal, the send resolves.
PublishUnconfirmedPromise(e) ==
    /\ rev = "promise"
    /\ e \in pending
    /\ connected
    /\ LET a == AfterSettle(items, Tail(batch), connected) IN
       /\ items' = a.items
       /\ batch' = a.batch
       /\ pending' = a.pending
       /\ requeued' = requeued \cup a.requeued
       /\ pumpPc' = a.pumpPc
       /\ mutex' = a.mutex
    /\ emitted' = NoSignal
    /\ UNCHANGED <<signalVars, disposeVars, wqPc, recovered>>
    /\ UNCHANGED <<inFlight, nextId, rev, authVars, client, connected, monTask, monCancel, monPc,
                   attempt, delayMs, cancelled, pumps, stopPc, acked, pubErr, fails, last,
                   logVars>>

\* "callback" sink, the same: nothing happens.
PublishUnconfirmedCallback(e) ==
    /\ rev = "callback"
    /\ e \in pending
    /\ connected
    /\ pending' = pending \ {e}
    /\ emitted' = NoSignal
    /\ UNCHANGED <<signalVars, disposeVars, wqPc, recovered>>
    /\ UNCHANGED <<queueVars, nextId, rev, authVars, client, mutex, connected, monTask, monCancel,
                   monPc, attempt, delayMs, pumpVars, histVars, last, logVars>>

\* "callback" sink, the publish callback with an error: mqttClient.end(true).
\* Nothing is reported to the pump.
PublishErrCallback(e) ==
    /\ rev = "callback"
    /\ e \in pending
    /\ pubErr' = pubErr \cup {e}
    /\ connected' = FALSE
    /\ pending' = pending \ {e}
    /\ emitted' = NoSignal
    /\ UNCHANGED <<signalVars, disposeVars, wqPc, recovered>>
    /\ UNCHANGED <<queueVars, nextId, rev, authVars, client, mutex, monTask, monCancel, monPc, attempt,
                   delayMs, pumpVars, acked, requeued, fails, last, logVars>>

\* The transport loses its connection.
Drop ==
    /\ connected
    /\ connected' = FALSE
    /\ emitted' = NoSignal
    /\ UNCHANGED <<signalVars, disposeVars, wqPc, recovered>>
    /\ UNCHANGED <<queueVars, nextId, rev, authVars, client, mutex, monTask, monCancel, monPc, attempt,
                   delayMs, pending, pumpVars, histVars, last, logVars>>

\* delayMs of startConnectionMonitor: Math.min(Base * 2 ** (attempt - 1), Max).
reconnectDelayLinear(a) == Min(BaseReconnectDelayMs * a, MaxReconnectDelayMs)

reconnectDelay(a) ==
    IF a >= 1
    THEN Min(BaseReconnectDelayMs * Pow2(a - 1), MaxReconnectDelayMs)
    ELSE Min(BaseReconnectDelayMs \div 2, MaxReconnectDelayMs)

\* The monitor's test of its token, tok being the token it was started with.
isCancelledNever(tok) == FALSE

isCancelled(tok) == tok = "cancelled"

\* The head of the monitor's while: the cancellation check and the first
\* "not connected" test, which counts an attempt.  When no attempt is made
\* the second test follows without suspension and starts the poll timer.
MonCheck ==
    /\ monTask
    /\ monPc = "check"
    /\ IF isCancelled(monCancel)
       THEN /\ monPc' = "done"
            /\ UNCHANGED <<attempt, delayMs>>
       ELSE IF ~connected /\ client
       THEN /\ attempt < MaxAttempt
            /\ attempt' = attempt + 1
            /\ monPc' = "auth"
            /\ UNCHANGED delayMs
       ELSE /\ monPc' = "poll"
            /\ delayMs' = ConnectedPollMs
            /\ UNCHANGED attempt
    /\ emitted' = NoSignal
    /\ UNCHANGED <<signalVars, disposeVars, wqPc, recovered>>
    /\ UNCHANGED <<queueVars, nextId, rev, authVars, client, mutex, connected, monTask, monCancel,
                   pending, pumpVars, histVars, last, logVars>>

\* Where the monitor goes on after a connection attempt has thrown: the catch
\* logs the error and the loop continues with the second test.
onAttemptFailedRethrow(pc) == "done"

onAttemptFailed(pc) == "after"

\* The attempt counter after mqttConnect() has resolved: attempt = 0.
attemptOnConnectKeep(a) == a

attemptOnConnect(a) == 0

\* await authStrategy.auth(client) returns (ok) or throws (a discovery
\* failure, a grant failure or an invalid token response).
MonAuth(ok) ==
    /\ monTask
    /\ monPc = "auth"
    /\ IF ok
       THEN /\ monPc' = "connect"
            /\ UNCHANGED fails
       ELSE /\ monPc' = onAttemptFailed(monPc)
            /\ fails' = fails + 1
    /\ emitted' = NoSignal
    /\ UNCHANGED <<signalVars, disposeVars, wqPc, recovered>>
    /\ UNCHANGED <<queueVars, nextId, rev, authVars, client, mutex, connected, monTask, monCancel, attempt,
                   delayMs, pending, pumpVars, acked, requeued, pubErr, last, logVars>>

\* await mqttConnect() resolves on 'connect' (ok) or rejects on 'error'.
MonConnect(ok) ==
    /\ monTask
    /\ monPc = "connect"
    /\ IF ok
       THEN /\ connected' = TRUE
            /\ attempt' = attemptOnConnect(attempt)
            /\ fails' = 0
            /\ monPc' = "after"
       ELSE /\ fails' = fails + 1
            /\ monPc' = onAttemptFailed(monPc)
            /\ UNCHANGED <<connected, attempt>>
    /\ emitted' = [name |-> IF ok THEN "OnConnected" ELSE "OnError", arg |-> None]
    /\ UNCHANGED <<signalVars, disposeVars, wqPc, recovered>>
    /\ UNCHANGED <<queueVars, nextId, rev, authVars, client, mutex, monTask, monCancel,
                   delayMs, pending, pumpVars, acked, requeued, pubErr, last, logVars>>

\* The second "not connected" test: choose the backoff delay or the poll
\* interval, and start the timer.
MonAfter ==
    /\ monTask
    /\ monPc = "after"
    /\ IF ~connected /\ client
       THEN /\ delayMs' = reconnectDelay(attempt)
            /\ monPc' = "backoff"
       ELSE /\ delayMs' = ConnectedPollMs
            /\ monPc' = "poll"
    /\ emitted' = NoSignal
    /\ UNCHANGED <<signalVars, disposeVars, wqPc, recovered>>
    /\ UNCHANGED <<queueVars, nextId, rev, authVars, client, mutex, connected, monTask, monCancel, attempt,
                   pending, pumpVars, histVars, last, logVars>>

\* The monitor's timer fires.
MonWake ==
    /\ monTask
    /\ monPc \in {"backoff", "poll"}
    /\ monPc' = "check"
    /\ emitted' = NoSignal
    /\ UNCHANGED <<signalVars, disposeVars, wqPc, recovered>>
    /\ UNCHANGED <<queueVars, nextId, rev, authVars, client, mutex, connected, monTask, monCancel, attempt,
                   delayMs, pending, pumpVars, histVars, last, logVars>>

\* ------------------------------------------------------ authentication
\* Two revisions of the OIDC authentication are modelled: "strategy"
\* (OidcMqttAuthStrategy) and "service" (StellaNowAuthenticationService).
\* A token response is a record: access is the serial number of the access
\* token (0: none), refresh tells whether it carries a refresh_token, error
\* whether it carries an error.  NoToken is tokenResponse === null.
NoToken == [access |-> 0, refresh |-> FALSE, error |-> FALSE]

\* What the token endpoint can answer to a grant request: the request is
\* rejected, or it resolves to a response with an error, without or with a
\* refresh token.
GrantOutcomes == {"reject", "error", "ok", "ok_rt"}

\* The response the grant request resolves to, n being the next serial number.
grantResponse(g, n) ==
    IF g = "error"
    THEN [access |-> 0, refresh |-> FALSE, error |-> TRUE]
    ELSE [access |-> n, refresh |-> (g = "ok_rt"), error |-> FALSE]

\* validateTokenResponse(response): a null or error response clears the
\* stored token and throws.
validateTokenResponseKeep(response, ar) ==
    [token |-> response, thrown |-> "none"]

validateTokenResponse(response, ar) ==
    IF response = NoToken \/ response.error
    THEN [token |-> NoToken,
          thrown |-> IF ar = "strategy" THEN "TokenValidationError"
                     ELSE "Error: Failed to authenticate."]
    ELSE [token |-> response, thrown |-> "none"]

\* getDiscoveryDocumentResponse(): the cached document, or a fetch whose
\* outcome is d; a failed fetch leaves nothing cached and throws.
getDiscoveryDocumentResponseNoCache(cfg, d, ar) ==
    IF d
    THEN [cfg |-> TRUE, fetch |-> "ok", thrown |-> "none"]
    ELSE [cfg |-> FALSE, fetch |-> "fail", thrown |-> "DiscoveryDocumentError"]

getDiscoveryDocumentResponseSwallow(cfg, d, ar) ==
    [cfg |-> cfg \/ d, fetch |-> IF cfg THEN "none" ELSE IF d THEN "ok" ELSE "fail",
     thrown |-> "none"]

getDiscoveryDocumentResponse(cfg, d, ar) ==
    IF cfg
    THEN [cfg |-> TRUE, fetch |-> "none", thrown |-> "none"]
    ELSE IF d
    THEN [cfg |-> TRUE, fetch |-> "ok", thrown |-> "none"]
    ELSE [cfg |-> FALSE, fetch |-> "fail",
          thrown |-> IF ar = "strategy" THEN "DiscoveryDocumentError"
                     ELSE "Error: Could not retrieve discovery document"]

\* loginAsync(): the discovery document, then the password grant with
\* outcome g, then the validation.  st is the strategy's state: token, cfg and
\* the next serial number seq.
loginAsync(st, d, g, ar) ==
    LET disc == getDiscoveryDocumentResponse(st.cfg, d, ar) IN
    IF disc.thrown # "none"
    THEN [token |-> st.token, cfg |-> disc.cfg, seq |-> st.seq, thrown |-> disc.thrown,
          fetch |-> disc.fetch, login |-> "none"]
    ELSE IF g = "reject"
    THEN [token |-> st.token, cfg |-> disc.cfg, seq |-> st.seq,
          thrown |-> IF ar = "strategy" THEN "OidcAuthenticationError"
                     ELSE "Error: grant request",
          fetch |-> disc.fetch, login |-> g]
    ELSE LET v == validateTokenResponse(grantResponse(g, st.seq), ar) IN
         [token |-> v.token, cfg |-> disc.cfg,
          seq |-> IF g = "error" THEN st.seq ELSE st.seq + 1,
          thrown |-> IF v.thrown = "none" THEN "none"
                     ELSE IF ar = "strategy" THEN "OidcAuthenticationError"
                     ELSE v.thrown,
          fetch |-> disc.fetch, login |-> g]

\* The guard of refreshTokensAsync(): a stored token without error that
\* carries a refresh token.
canRefreshAny(token) == token # NoToken

canRefresh(token) == token # NoToken /\ ~token.error /\ token.refresh

\* refreshTokensAsync(): false without a refreshable token; otherwise the
\* discovery document, the refresh grant with outcome g and the validation.
\* A failed grant or validation makes the "service" return false and the
\* "strategy" throw.
refreshTokensAsync(st, d, g, ar) ==
    IF ~canRefresh(st.token)
    THEN [token |-> st.token, cfg |-> st.cfg, seq |-> st.seq, ret |-> FALSE,
          thrown |-> "none", fetch |-> "none", refresh |-> "none"]
    ELSE LET disc == getDiscoveryDocumentResponse(st.cfg, d, ar) IN
    IF disc.thrown # "none"
    THEN [token |-> st.token, cfg |-> disc.cfg, seq |-> st.seq, ret |-> FALSE,
          thrown |-> disc.thrown, fetch |-> disc.fetch, refresh |-> "none"]
    ELSE IF g = "reject"
    THEN [token |-> st.token, cfg |-> disc.cfg, seq |-> st.seq, ret |-> FALSE,
          thrown |-> IF ar = "strategy" THEN "OidcAuthenticationError" ELSE "none",
          fetch |-> disc.fetch, refresh |-> g]
    ELSE LET v == validateTokenResponse(grantResponse(g, st.seq), ar) IN
         [token |-> v.token, cfg |-> disc.cfg,
          seq |-> IF g = "error" THEN st.seq ELSE st.seq + 1,
          ret |-> (v.thrown = "none"),
          thrown |-> IF v.thrown # "none" /\ ar = "strategy"
                     THEN "OidcAuthenticationError" ELSE "none",
          fetch |-> disc.fetch, refresh |-> g]

\* authenticate(): if (!(await refreshTokensAsync())) await loginAsync().
\* d is the outcome of a discovery fetch, r of the refresh grant and l of the
\* password grant, should the call make them.
authenticate(st, d, r, l, ar) ==
    LET rf == refreshTokensAsync(st, d, r, ar) IN
    IF rf.thrown # "none" \/ rf.ret
    THEN [token |-> rf.token, cfg |-> rf.cfg, seq |-> rf.seq, thrown |-> rf.thrown,
          fetch |-> rf.fetch, refresh |-> rf.refresh, login |-> "none"]
    ELSE LET lg == loginAsync([token |-> rf.token, cfg |-> rf.cfg, seq |-> rf.seq],
                              d, l, ar) IN
         [token |-> lg.token, cfg |-> lg.cfg, seq |-> lg.seq, thrown |-> lg.thrown,
          fetch |-> IF rf.fetch # "none" THEN rf.fetch ELSE lg.fetch,
          refresh |-> rf.refresh, login |-> lg.login]

NoAuthCall ==
    [called |-> FALSE, thrown |-> "none", fetch |-> "none", refresh |-> "none",
     login |-> "none", before |-> NoToken, cfgBefore |-> FALSE]

\* The options the sink's start() gives the client: username and password ''
\* (username 0), the client id left to the transport.
InitialOptions == [username |-> 0, password |-> "", clientId |-> "default"]

NoAuthClientCall ==
    [called |-> FALSE, client |-> FALSE, conn |-> FALSE, thrown |-> "none",
     authenticated |-> FALSE]

\* auth(mqttClient) past its two early exits: authenticate(), then the access
\* token becomes the username, the password is reset and the client id is
\* credentials.sinkClientId (sid) or a generated one.  st is the strategy's
\* state, opts the client's options.
authAttach(st, opts, sid, d, r, l, ar) ==
    LET a == authenticate(st, d, r, l, ar) IN
    IF a.thrown # "none"
    THEN [st |-> a, options |-> opts, thrown |-> a.thrown, authenticated |-> TRUE]
    ELSE IF a.token.access = 0
    THEN [st |-> a, options |-> opts, thrown |-> "OidcAuthenticationError",
          authenticated |-> TRUE]
    ELSE [st |-> a,
          options |-> [username |-> a.token.access, password |-> "",
                       clientId |-> IF sid THEN "sinkClientId" ELSE "generated"],
          thrown |-> "none", authenticated |-> TRUE]

\* What auth(mqttClient) returns without having called authenticate().
authReturn(st, opts, thrown) ==
    [st |-> [token |-> st.token, cfg |-> st.cfg, seq |-> st.seq, thrown |-> "none",
             fetch |-> "none", refresh |-> "none", login |-> "none"],
     options |-> opts, thrown |-> thrown, authenticated |-> FALSE]

\* auth(mqttClient): cl tells whether a client was passed, conn is
\* mqttClient.connected.
authNoConnectedCheck(st, opts, cl, conn, sid, d, r, l, ar) ==
    IF ~cl
    THEN authReturn(st, opts, "OidcAuthenticationError")
    ELSE authAttach(st, opts, sid, d, r, l, ar)

auth(st, opts, cl, conn, sid, d, r, l, ar) ==
    IF ~cl
    THEN authReturn(st, opts, "OidcAuthenticationError")
    ELSE IF conn
    THEN authReturn(st, opts, "none")
    ELSE authAttach(st, opts, sid, d, r, l, ar)

\* One call of auth(mqttClient) on the strategy.
AuthClient(cl, d, r, l) ==
    LET a == auth([token |-> tokenResponse, cfg |-> configInstance, seq |-> grantSeq],
                  options, cl, connected, sinkClientId, d, r, l, authRev) IN
    /\ authRev = "strategy"
    /\ grantSeq <= MaxGrants
    /\ tokenResponse' = a.st.token
    /\ configInstance' = a.st.cfg
    /\ grantSeq' = a.st.seq
    /\ options' = a.options
    /\ authLast' = IF a.authenticated
                   THEN [called |-> TRUE, thrown |-> a.st.thrown, fetch |-> a.st.fetch,
                         refresh |-> a.st.refresh, login |-> a.st.login,
                         before |-> tokenResponse, cfgBefore |-> configInstance]
                   ELSE authLast
    /\ authCall' = [called |-> TRUE, client |-> cl, conn |-> connected,
                    thrown |-> a.thrown, authenticated |-> a.authenticated]
    /\ emitted' = NoSignal
    /\ UNCHANGED <<signalVars, disposeVars, wqPc, recovered>>
    /\ UNCHANGED <<queueVars, nextId, rev, authRev, sinkClientId, sinkVars, pumpVars,
                   histVars, last, logVars>>

\* The transport of the client handed to auth() connects or closes.
AuthClientState ==
    /\ connected' = ~connected
    /\ authCall' = NoAuthClientCall
    /\ emitted' = NoSignal
    /\ UNCHANGED <<signalVars, disposeVars, wqPc, recovered>>
    /\ UNCHANGED <<queueVars, nextId, rev, authRev, tokenResponse, configInstance, grantSeq,
                   authLast, options, sinkClientId, client, monTask, monCancel, monPc,
                   attempt, delayMs, pending, mutex, pumpVars, histVars, last, logVars>>

\* One call of authenticate(), the calls being made one after the other.
Authenticate(d, r, l) ==
    LET a == authenticate([token |-> tokenResponse, cfg |-> configInstance,
                           seq |-> grantSeq], d, r, l, authRev) IN
    /\ grantSeq <= MaxGrants
    /\ tokenResponse' = a.token
    /\ configInstance' = a.cfg
    /\ grantSeq' = a.seq
    /\ authLast' = [called |-> TRUE, thrown |-> a.thrown, fetch |-> a.fetch,
                    refresh |-> a.refresh, login |-> a.login,
                    before |-> tokenResponse, cfgBefore |-> configInstance]
    /\ authCall' = NoAuthClientCall
    /\ emitted' = NoSignal
    /\ UNCHANGED <<signalVars, disposeVars, wqPc, recovered>>
    /\ UNCHANGED <<queueVars, nextId, rev, authRev, options, sinkClientId, sinkVars,
                   pumpVars, histVars, last, logVars>>

\* ------------------------------------------------------- StellaNowSignal
\* A listener is a function; what matters of it is its identity and whether
\* it throws when called.
Listeners == [id : 1..MaxListeners, throws : BOOLEAN]

\* subscribe(listener): pushed unless already included.
subscribe(ls, l) == IF l \in Range(ls) THEN ls ELSE Append(ls, l)

\* unsubscribe(listener): filtered out.
unsubscribe(ls, l) == SelectSeq(ls, LAMBDA x : x # l)

\* this.listeners.forEach(listener => listener(...args)): the listeners are
\* called in order, and the exception of one ends the forEach.
RECURSIVE forEachListener(_)
forEachListener(ls) ==
    IF ls = <<>>
    THEN [invoked |-> <<>>, thrown |-> FALSE]
    ELSE IF Head(ls).throws
    THEN [invoked |-> <<Head(ls)>>, thrown |-> TRUE]
    ELSE LET r == forEachListener(Tail(ls)) IN
         [invoked |-> <<Head(ls)>> \o r.invoked, thrown |-> r.thrown]

\* trigger(...args): try { forEach } catch { }.
trigger(ls) == [notified |-> forEachListener(ls).invoked, thrown |-> FALSE]

SigSubscribe(l) ==
    /\ listeners' = subscribe(listeners, l)
    /\ notified' = <<>>
    /\ sigLast' = "subscribe"
    /\ sigThrown' = FALSE
    /\ UNCHANGED <<queueVars, nextId, rev, authVars, sinkVars, pumpVars, histVars, last,
                   logVars, emitted, disposeVars, wqPc, recovered>>

SigUnsubscribe(l) ==
    /\ listeners' = unsubscribe(listeners, l)
    /\ notified' = <<>>
    /\ sigLast' = "unsubscribe"
    /\ sigThrown' = FALSE
    /\ UNCHANGED <<queueVars, nextId, rev, authVars, sinkVars, pumpVars, histVars, last,
                   logVars, emitted, disposeVars, wqPc, recovered>>

SigTrigger ==
    LET t == trigger(listeners) IN
    /\ notified' = t.notified
    /\ sigLast' = "trigger"
    /\ sigThrown' = t.thrown
    /\ UNCHANGED <<queueVars, nextId, rev, authVars, sinkVars, pumpVars, histVars, last,
                   logVars, emitted, listeners, disposeVars, wqPc, recovered>>

\* ------------------------------------------------------ the whole pipeline
NoCall == [op |-> "none", arg |-> None, ret |-> None, thrown |-> "none", found |-> FALSE]

\* The state after construction, but for the authentication revision.
InitBase ==
    /\ items = <<>>
    /\ inFlight = <<>>
    /\ nextId = 1
    /\ rev \in {"promise", "callback"}
    /\ client = FALSE
    /\ connected = FALSE
    /\ monTask = FALSE
    /\ monCancel = "null"
    /\ monPc = "none"
    /\ attempt = 0
    /\ delayMs = 0
    /\ cancelled = FALSE
    /\ pumpPc = "off"
    /\ batch = <<>>
    /\ pending = {}
    /\ stopPc = "none"
    /\ acked = {}
    /\ requeued = {}
    /\ pubErr = {}
    /\ fails = 0
    /\ last = NoCall
    /\ enqLog = <<>>
    /\ deqLog = <<>>
    /\ fifoRun = "enq"
    /\ mutex = "free"
    /\ pumps = 0
    /\ tokenResponse = NoToken
    /\ configInstance = FALSE
    /\ grantSeq = 1
    /\ authLast = NoAuthCall
    /\ options = InitialOptions
    /\ authCall = NoAuthClientCall
    /\ emitted = NoSignal
    /\ listeners = <<>>
    /\ notified = <<>>
    /\ sigLast = "none"
    /\ sigThrown = FALSE
    /\ orphans = 0
    /\ disposePc = "none"
    /\ wqPc = "idle"
    /\ recovered = FALSE

\* Authentication enters the pipeline only through the outcome of auth()
\* (MonAuth), so the pipeline and the queue are explored with one revision of
\* it.
Init == InitBase /\ authRev = "strategy" /\ sinkClientId = TRUE

AuthInit == InitBase /\ authRev \in {"strategy", "service"} /\ sinkClientId \in BOOLEAN

Next ==
    \/ Start
    \/ StopBegin
    \/ StopSink
    \/ StopFinish
    \/ \E n \in 0..MaxRefs : SendMessage(n)
    \/ PumpLoop
    \/ PumpWake
    \/ \E e \in Ids : PublishOkPromise(e)
    \/ \E e \in Ids : PublishErrPromise(e)
    \/ \E e \in Ids : PublishOkCallback(e)
    \/ \E e \in Ids : PublishErrCallback(e)
    \/ \E e \in Ids : PublishUnconfirmedPromise(e)
    \/ \E e \in Ids : PublishUnconfirmedCallback(e)
    \/ Drop
    \/ MonCheck
    \/ \E ok \in BOOLEAN : MonAuth(ok)
    \/ \E ok \in BOOLEAN : MonConnect(ok)
    \/ MonAfter
    \/ MonWake

Spec == Init /\ [][Next]_vars


\* ------------------------------------- the message source called directly
\* A client of IStellaNowMessageSource calling the FifoQueue's methods on
\* their own.  enqLog and deqLog follow a run of enqueues followed by
\* dequeues; a run starts on an empty queue and is broken by an enqueue that
\* comes after a dequeue and by reEnqueueAll.
QEnqueue(e) ==
    /\ Len(items) < MaxQueue
    /\ items' = enqueue(items, e)
    /\ last' = [op |-> "enqueue", arg |-> e, ret |-> None, thrown |-> "none", found |-> FALSE]
    /\ IF isEmpty(items)
       THEN /\ fifoRun' = "enq"
            /\ enqLog' = <<e>>
            /\ deqLog' = <<>>
       ELSE IF fifoRun = "enq"
       THEN /\ enqLog' = Append(enqLog, e)
            /\ UNCHANGED <<deqLog, fifoRun>>
       ELSE /\ fifoRun' = "broken"
            /\ enqLog' = <<>>
            /\ deqLog' = <<>>
    /\ emitted' = NoSignal
    /\ UNCHANGED <<signalVars, disposeVars, wqPc, recovered>>
    /\ UNCHANGED <<inFlight, nextId, rev, authVars, sinkVars, pumpVars, histVars>>

QTryDequeue ==
    LET d == tryDequeue(items, inFlight) IN
    /\ items' = d.items
    /\ inFlight' = d.inFlight
    /\ last' = [op |-> "tryDequeue", arg |-> None, ret |-> d.item, thrown |-> "none",
                found |-> FALSE]
    /\ IF d.item # None /\ fifoRun # "broken"
       THEN /\ fifoRun' = "deq"
            /\ deqLog' = Append(deqLog, d.item)
            /\ UNCHANGED enqLog
       ELSE UNCHANGED logVars
    /\ emitted' = NoSignal
    /\ UNCHANGED <<signalVars, disposeVars, wqPc, recovered>>
    /\ UNCHANGED <<nextId, rev, authVars, sinkVars, pumpVars, histVars>>

QMarkMessageAck(id) ==
    /\ inFlight' = markMessageAck(inFlight, id)
    /\ last' = [op |-> "markMessageAck", arg |-> id, ret |-> None, thrown |-> "none",
                found |-> id \in Range(inFlight)]
    /\ emitted' = NoSignal
    /\ UNCHANGED <<signalVars, disposeVars, wqPc, recovered>>
    /\ UNCHANGED <<items, nextId, rev, authVars, sinkVars, pumpVars, histVars, logVars>>

QReEnqueueAll ==
    LET r == reEnqueueAll(items, inFlight) IN
    /\ Len(items) + Len(inFlight) <= MaxQueue
    /\ items' = r.items
    /\ inFlight' = r.inFlight
    /\ last' = [op |-> "reEnqueueAll", arg |-> numberInFlight(inFlight), ret |-> None,
                thrown |-> "none", found |-> FALSE]
    /\ IF inFlight = <<>>
       THEN UNCHANGED logVars
       ELSE /\ fifoRun' = "broken"
            /\ enqLog' = <<>>
            /\ deqLog' = <<>>
    /\ recovered' = (recovered \/ inFlight # <<>>)
    /\ emitted' = NoSignal
    /\ UNCHANGED <<signalVars, disposeVars, wqPc>>
    /\ UNCHANGED <<nextId, rev, authVars, sinkVars, pumpVars, histVars>>

QNext ==
    \/ \E e \in Ids : QEnqueue(e)
    \/ QTryDequeue
    \/ \E id \in Ids : QMarkMessageAck(id)
    \/ QReEnqueueAll

QueueSpec == Init /\ [][QNext]_vars

\* ------------------------------------------- authenticate() called directly
AuthNext ==
    \/ \E d \in BOOLEAN, r \in GrantOutcomes, l \in GrantOutcomes : Authenticate(d, r, l)
    \/ \E cl, d \in BOOLEAN, r \in GrantOutcomes, l \in GrantOutcomes :
          AuthClient(cl, d, r, l)
    \/ AuthClientState

AuthSpec == AuthInit /\ [][AuthNext]_vars

\* ------------------------------------------------ a signal called directly
SignalNext ==
    \/ \E l \in Listeners : SigSubscribe(l)
    \/ \E l \in Listeners : SigUnsubscribe(l)
    \/ SigTrigger

SignalSpec == Init /\ [][SignalNext]_vars


\* ------------------------------------------------- the sink's dispose()
\* dispose(), its synchronous part: the client, if there is one, is ended by
\* force, and the rest waits for the lock.  It is followed while fewer than
\* MaxPumps event loops have been launched and not ended.
Dispose ==
    /\ disposePc = "none"
    /\ pumps < MaxPumps
    /\ disposePc' = "wait"
    /\ connected' = FALSE
    /\ emitted' = NoSignal
    /\ UNCHANGED <<signalVars, orphans, wqPc, recovered>>
    /\ UNCHANGED <<queueVars, nextId, rev, authVars, client, monTask, monCancel, monPc,
                   attempt, delayMs, pending, mutex, pumpVars, histVars, last, logVars>>

\* What dispose() does to a monitor loop that is running, n being the number
\* of loops detached so far: it cancels the loop's token and forgets the
\* task without awaiting it, so the loop runs on until its next check.
disposeMonitor(task, pc, n) == IF task /\ pc # "done" THEN n + 1 ELSE n

\* dispose() inside its locked section: the token is cancelled, the client
\* is ended and forgotten, the task and the token are cleared.
DisposeLocked ==
    /\ disposePc = "wait"
    /\ acquire(mutex)
    /\ disposeMonitor(monTask, monPc, orphans) <= MaxOrphans
    /\ orphans' = disposeMonitor(monTask, monPc, orphans)
    /\ monTask' = FALSE
    /\ monCancel' = "null"
    /\ monPc' = "none"
    /\ client' = FALSE
    /\ connected' = FALSE
    /\ disposePc' = "none"
    /\ emitted' = NoSignal
    /\ UNCHANGED <<signalVars, wqPc, recovered>>
    /\ UNCHANGED <<queueVars, nextId, rev, authVars, attempt, delayMs, pending, mutex,
                   pumpVars, histVars, last, logVars>>

\* A detached monitor loop reaches its check, finds its token cancelled and
\* returns.  Its steps up to there are not followed.
OrphanExit ==
    /\ orphans > 0
    /\ orphans' = orphans - 1
    /\ emitted' = NoSignal
    /\ UNCHANGED <<signalVars, disposePc, wqPc, recovered>>
    /\ UNCHANGED <<queueVars, nextId, rev, authVars, sinkVars, pumpVars, histVars, last,
                   logVars>>

\* The sink's life cycle: start, stop and dispose, the monitor and the
\* connection, with no event sent.
LifeNext ==
    \/ Start
    \/ StopBegin
    \/ StopSink
    \/ StopFinish
    \/ PumpLoop
    \/ PumpWake
    \/ Drop
    \/ MonCheck
    \/ \E ok \in BOOLEAN : MonAuth(ok)
    \/ \E ok \in BOOLEAN : MonConnect(ok)
    \/ MonAfter
    \/ MonWake
    \/ Dispose
    \/ DisposeLocked
    \/ OrphanExit

LifeSpec == Init /\ [][LifeNext]_vars

\* A caller of the queue's reEnqueueAll(), which nothing in the SDK calls.
\* One recovery is followed.
Recover ==
    /\ ~recovered
    /\ QReEnqueueAll

\* The running pipeline with that caller: sends, the pump, the outcomes of
\* publishes, and the monitor.
RecoverNext ==
    \/ Start
    \/ \E n \in 0..MaxRefs : SendMessage(n)
    \/ PumpLoop
    \/ PumpWake
    \/ \E e \in Ids : PublishOkPromise(e)
    \/ \E e \in Ids : PublishErrPromise(e)
    \/ \E e \in Ids : PublishOkCallback(e)
    \/ \E e \in Ids : PublishErrCallback(e)
    \/ Drop
    \/ MonCheck
    \/ \E ok \in BOOLEAN : MonAuth(ok)
    \/ \E ok \in BOOLEAN : MonConnect(ok)
    \/ MonAfter
    \/ MonWake
    \/ Recover

RecoverSpec == Init /\ [][RecoverNext]_vars

\* A step of the monitor loop.
MonStep ==
    \/ MonCheck
    \/ \E ok \in BOOLEAN : MonAuth(ok)
    \/ \E ok \in BOOLEAN : MonConnect(ok)
    \/ MonAfter
    \/ MonWake

\* The monitor's timers fire and its attempts settle, and a stop() whose
\* awaited task has ended goes on.
LifeFairSpec == LifeSpec /\ WF_vars(MonStep) /\ WF_vars(StopFinish)

\* ------------------------------------- the earlier facade's whole-queue loop
\* The earlier StellaNowSDK runs eventLoop from a 10 ms interval timer and
\* drains the whole queue in one invocation, one send at a time, with the
\* sink whose send settles with its publish.  One invocation is followed at
\* a time.
WqInit == Init /\ rev = "promise"

\* The head of eventLoop: not connected it warns and returns, with an empty
\* queue it returns, otherwise it enters the drain loop.
WqInvoke ==
    /\ wqPc = "idle"
    /\ IF ~connected
       THEN /\ emitted' = [name |-> "warn: Sink is not connected", arg |-> None]
            /\ UNCHANGED wqPc
       ELSE IF isEmpty(items)
       THEN /\ emitted' = NoSignal
            /\ UNCHANGED wqPc
       ELSE /\ emitted' = NoSignal
            /\ wqPc' = "while"
    /\ UNCHANGED <<signalVars, disposeVars, recovered>>
    /\ UNCHANGED <<queueVars, nextId, rev, authVars, sinkVars, pumpVars, histVars, last,
                   logVars>>

\* One pass of while (!source.isEmpty()): the loop ends on an empty queue;
\* otherwise an event is dequeued and sent, and a send that throws at once,
\* the sink not being connected, is caught and the event requeued.
WqIterate ==
    /\ wqPc = "while"
    /\ IF isEmpty(items)
       THEN /\ wqPc' = "idle"
            /\ UNCHANGED <<queueVars, pending, mutex, requeued, pubErr>>
       ELSE LET d == tryDequeue(items, inFlight) IN
            /\ inFlight' = d.inFlight
            /\ IF sendMessageAsync(connected).published
               THEN /\ items' = d.items
                    /\ pending' = {d.item}
                    /\ mutex' = "send"
                    /\ wqPc' = "send"
                    /\ requeued' = requeued \ {d.item}
                    /\ pubErr' = pubErr \ {d.item}
               ELSE /\ items' = onSendRejected(d.items, d.item)
                    /\ requeued' = requeued \cup {d.item}
                    /\ UNCHANGED <<pending, mutex, wqPc, pubErr>>
    /\ emitted' = NoSignal
    /\ UNCHANGED <<signalVars, disposeVars, recovered>>
    /\ UNCHANGED <<nextId, rev, authVars, client, connected, monTask, monCancel, monPc,
                   attempt, delayMs, pumpVars, acked, fails, last, logVars>>

\* The publish of the event being sent settles: confirmed, the sink raises
\* OnMessageAck and the send resolves; with an error the send is rejected
\* and the loop's catch requeues the event.
WqSettle(ok) ==
    /\ wqPc = "send"
    /\ \E e \in pending :
          IF ok
          THEN /\ connected
               /\ inFlight' = markMessageAck(inFlight, e)
               /\ acked' = acked \cup {e}
               /\ emitted' = [name |-> "OnMessageAck", arg |-> e]
               /\ UNCHANGED <<items, requeued, pubErr>>
          ELSE /\ items' = onSendRejected(items, e)
               /\ requeued' = requeued \cup {e}
               /\ pubErr' = pubErr \cup {e}
               /\ emitted' = NoSignal
               /\ UNCHANGED <<inFlight, acked>>
    /\ pending' = {}
    /\ mutex' = "free"
    /\ wqPc' = "while"
    /\ UNCHANGED <<signalVars, disposeVars, recovered>>
    /\ UNCHANGED <<nextId, rev, authVars, client, connected, monTask, monCancel, monPc,
                   attempt, delayMs, pumpVars, fails, last, logVars>>

\* start() has been called and the sink's monitor connects the client.
WqConnect ==
    /\ ~connected
    /\ connected' = TRUE
    /\ emitted' = [name |-> "OnConnected", arg |-> None]
    /\ UNCHANGED <<signalVars, disposeVars, wqPc, recovered>>
    /\ UNCHANGED <<queueVars, nextId, rev, authVars, client, monTask, monCancel, monPc,
                   attempt, delayMs, pending, mutex, pumpVars, histVars, last, logVars>>

WqNext ==
    \/ WqInvoke
    \/ WqIterate
    \/ \E ok \in BOOLEAN : WqSettle(ok)
    \/ WqConnect
    \/ Drop
    \/ \E n \in 0..MaxRefs : SendMessage(n)

WqSpec == WqInit /\ [][WqNext]_vars

\* The loop's own steps are taken: its continuations run, and the transport
\* answers a publish.
WqFairSpec == WqSpec /\ WF_vars(WqIterate) /\ WF_vars(\E ok \in BOOLEAN : WqSettle(ok))

\* ================================================================ claims
Sent == 1..(nextId - 1)

InQueue(e) == e \in Range(items)

InFlightHas(e) == e \in Range(inFlight)

\* C1: no loss.  In every reachable state each event accepted by
\* sendMessage whose message id has not been acknowledged is in the queue or
\* in the in-flight map.
C1_NoLoss ==
    \A e \in Sent : e \notin acked => InQueue(e) \/ InFlightHas(e)

\* An unacknowledged event has gone through a failed send and a requeue, and
\* the connection is down.
C1_Witness ==
    \E e \in Sent : e \notin acked /\ e \in requeued /\ ~connected /\ InQueue(e)

\* C2: once the pump has handled the failed send of a dequeued event E, E is
\* in the queue again and E's message id is absent from the in-flight map.
C2_RequeuedLeavesInFlight ==
    \A e \in requeued : InQueue(e) /\ ~InFlightHas(e)

\* C3: an event whose publish raised a transport error reappears in the queue
\* (from where a later tick republishes it).
C3_PublishErrorRequeues ==
    \A e \in pubErr : InQueue(e)

\* C4: one event M1 was sent and no other; once the broker's confirmation for
\* M1 has arrived, numberInFlight() = 0 and length() = 0.
C4_AckedThenEmpty ==
    (nextId = 2 /\ 1 \in acked) => (numberInFlight(inFlight) = 0 /\ length(items) = 0)

C4_Witness ==
    nextId = 2 /\ acked = {1} /\ connected /\ last.op = "sendMessage" /\ last.arg >= 1

\* C5: in a run of N enqueue calls followed by tryDequeue calls, with no
\* requeue and no reEnqueueAll in between, the i-th tryDequeue returns the
\* i-th enqueued event.
C5_FifoOrder ==
    fifoRun # "broken" =>
        /\ Len(deqLog) <= Len(enqLog)
        /\ \A i \in 1..Len(deqLog) : deqLog[i] = enqLog[i]

C5_Witness ==
    /\ fifoRun = "deq"
    /\ Len(enqLog) = MaxQueue
    /\ Len(deqLog) = MaxQueue
    /\ enqLog[1] # enqLog[2]

\* The step is a call of the queue method op.
QCall(op) == last'.op = op

\* C6 as stated: after tryDequeue() returned E, E is absent from the plain
\* queue and present in the in-flight map, and stays so until markAck is
\* called for E's id.
C6_StaysUntilAck ==
    [][\A e \in Ids :
          (InFlightHas(e) /\ ~InQueue(e)
             /\ ~(QCall("markMessageAck") /\ last'.arg = e))
          => (e \in Range(inFlight') /\ e \notin Range(items'))]_vars

\* C6, amended: tryDequeue() removes the head entry E of the queue, returns
\* it and puts it in the in-flight map under its id, leaving the other entries
\* alone; on an empty queue it returns nothing and changes neither.  E leaves
\* the in-flight map only by markAck for its id or by reEnqueueAll, and it is
\* back in the queue only by an enqueue of E or by reEnqueueAll.
C6_Dequeue ==
    [][/\ QCall("tryDequeue") =>
            IF isEmpty(items)
            THEN last'.ret = None /\ items' = items /\ inFlight' = inFlight
            ELSE /\ last'.ret = Head(items)
                 /\ items' = Tail(items)
                 /\ last'.ret \in Range(inFlight')
                 /\ Range(inFlight') = Range(inFlight) \cup {last'.ret}
       /\ \A e \in Ids :
            (InFlightHas(e) /\ e \notin Range(inFlight'))
            => \/ QCall("markMessageAck") /\ last'.arg = e
               \/ QCall("reEnqueueAll")
       /\ \A e \in Ids :
            (InFlightHas(e) /\ ~InQueue(e) /\ e \in Range(items'))
            => \/ QCall("enqueue") /\ last'.arg = e
               \/ QCall("reEnqueueAll")]_vars

C6_Witness ==
    /\ last.op = "tryDequeue"
    /\ last.ret # None
    /\ InFlightHas(last.ret)
    /\ ~InQueue(last.ret)
    /\ items # <<>>

\* C7: markAck(id) for an id that is not in the in-flight map does not throw
\* and leaves the queue and the in-flight map as they are; for an in-flight
\* id it removes exactly that entry.
C7_MarkAck ==
    [][QCall("markMessageAck") =>
          /\ last'.thrown = "none"
          /\ items' = items
          /\ Range(inFlight') = Range(inFlight) \ {last'.arg}
          /\ Len(inFlight') = Len(inFlight) - (IF InFlightHas(last'.arg) THEN 1 ELSE 0)
          /\ \A i, j \in 1..Len(inFlight') :
                i < j => \E k, l \in 1..Len(inFlight) :
                            k < l /\ inFlight[k] = inFlight'[i] /\ inFlight[l] = inFlight'[j]
          /\ (~InFlightHas(last'.arg) => inFlight' = inFlight)]_vars

\* markAck was called for an id that was not in flight, with other entries
\* in flight and in the queue.
C7_Witness ==
    /\ last.op = "markMessageAck"
    /\ ~last.found
    /\ inFlight # <<>>
    /\ items # <<>>

\* C8: reEnqueueAll() appends every in-flight event to the tail of the queue,
\* after the events already queued, which keep their order, and empties the
\* in-flight map: numberInFlight() is 0 and length() has grown by the previous
\* numberInFlight().
C8_ReEnqueueAll ==
    [][QCall("reEnqueueAll") =>
          /\ SubSeq(items', 1, Len(items)) = items
          /\ length(items') = length(items) + numberInFlight(inFlight)
          /\ {items'[i] : i \in (Len(items) + 1)..Len(items')} = Range(inFlight)
          /\ numberInFlight(inFlight') = 0]_vars

C8_Witness ==
    /\ last.op = "reEnqueueAll"
    /\ last.arg = 2
    /\ length(items) = 3
    /\ numberInFlight(inFlight) = 0

\* The step is a call of sendMessage on a message without entity references.
SendEmptyCall == last' # last /\ last'.op = "sendMessage" /\ last'.arg = 0

\* C9 as stated: sendMessage on a message whose entity-reference list is
\* empty fails with a typed error and nothing is enqueued.
C9_TypedError ==
    [][SendEmptyCall =>
          /\ last'.thrown \in TypedErrors
          /\ length(items') = length(items)
          /\ numberInFlight(inFlight') = numberInFlight(inFlight)]_vars

\* C9, amended: sendMessage on a message whose entity-reference list is
\* empty fails with a plain Error raised at the call, and nothing is
\* enqueued: the queue and the in-flight map are as before the call.
C9_EmptyRefsThrow ==
    [][SendEmptyCall =>
          /\ last'.thrown = "Error"
          /\ items' = items
          /\ inFlight' = inFlight
          /\ length(items') = length(items)
          /\ numberInFlight(inFlight') = numberInFlight(inFlight)]_vars

C9_Witness ==
    /\ last.op = "sendMessage"
    /\ last.arg = 0
    /\ last.thrown = "Error"
    /\ items # <<>>
    /\ inFlight # <<>>

\* The delay after the n-th consecutive failed attempt, as the claim lists it.
BackoffTable(n) ==
    CASE n = 1 -> 5000
      [] n = 2 -> 10000
      [] n = 3 -> 20000
      [] n = 4 -> 40000
      [] OTHER -> 60000

\* C10: the delay the monitor sleeps after the n-th consecutive failed
\* connection attempt is 5000, 10000, 20000, 40000, 60000, 60000, ... ms.
C10_BackoffSequence ==
    (monPc = "backoff" /\ fails >= 1) => (attempt = fails /\ delayMs = BackoffTable(fails))

C10_Witness ==
    monPc = "backoff" /\ fails = 6 /\ delayMs = 60000

\* The step is a call of StellaNowSDK.start() whose result differs from the
\* last recorded call.
StartCall == last' # last /\ last'.op = "start"

PumpAlive == pumpPc \in {"loop", "batch", "delay"}

\* C11: start() on a sink that is already started fails with an error and
\* changes nothing: the monitor task and its cancellation token are kept, no
\* second monitor is launched, and the lock is released.
C11_StartOnStarted ==
    [][(StartCall /\ monTask) =>
          /\ last'.thrown # "none"
          /\ mutex' = "free"
          /\ UNCHANGED <<monTask, monCancel, monPc, attempt, delayMs, client, connected,
                         pending>>]_vars

\* start() has failed on a started sink whose monitor is sleeping a backoff.
C11_Witness ==
    /\ last.op = "start"
    /\ last.found
    /\ last.thrown \in {"SinkInitializationError", "Error"}
    /\ monTask
    /\ monCancel = "live"
    /\ monPc = "backoff"
    /\ mutex = "free"

\* C12: when the sink's stop() returns, the monitor loop has exited and the
\* transport is closed; stop() closes the transport only after the monitor
\* has exited; and no connection attempt is made afterwards until start() is
\* called again.
C12_StopEndsMonitor ==
    [][/\ (stopPc = "awaitMon" /\ stopPc' = "stopped") =>
            /\ monTask => monPc = "done"
            /\ ~connected'
            /\ ~monTask'
       /\ (stopPc = "stopped" /\ stopPc' = "stopped") =>
            /\ ~connected'
            /\ ~monTask'
            /\ monPc' = monPc
            /\ attempt' = attempt]_vars

\* stop() has returned on a sink that had been connected and had published.
C12_Witness ==
    /\ stopPc = "stopped"
    /\ monPc = "done"
    /\ ~connected
    /\ ~monTask
    /\ acked # {}

\* C13: a send made while the sink is not connected fails and hands nothing
\* to the transport (the pump's handler of the failure requeues the event),
\* and no event is reported as sent that was not handed to the transport.
C13_NoPublishUnconnected ==
    [][/\ ~connected => pending' \subseteq pending
       /\ (acked' \ acked) \subseteq pending
       /\ \A e \in Range(batch) :
            (e \notin pending /\ e \notin pending' /\ e \notin Range(batch'))
            => (e \in requeued' /\ e \notin acked')]_vars

\* A send of the batch was refused because the connection had gone: the event
\* was requeued without a publish error.
C13_Witness ==
    /\ rev = "promise"
    /\ ~connected
    /\ \E e \in requeued : e \notin pubErr /\ e \notin acked /\ e \notin pending

C15_StopWaitsForPump ==
    [][/\ (stopPc = "none" /\ stopPc' = "awaitPump") => cancelled'
       /\ (stopPc = "awaitPump" /\ stopPc' = "awaitMon") =>
            /\ ~PumpAlive
            /\ batch = <<>>
            /\ cancelled
       /\ stopPc' \in {"awaitMon", "stopped"} => ~PumpAlive'
       /\ (cancelled /\ pumpPc # "batch") =>
            /\ Len(items') >= Len(items)
            /\ pending' \subseteq pending
            /\ Range(inFlight') \subseteq Range(inFlight)]_vars

\* stop() has returned, leaving events in the queue, after a failed publish.
C15_Witness ==
    /\ stopPc = "stopped"
    /\ pumpPc = "exited"
    /\ cancelled
    /\ items # <<>>
    /\ requeued # {}

\* The token stored before the last authenticate() call was without error
\* and carried a refresh token.
HadRefreshToken ==
    authLast.before # NoToken /\ ~authLast.before.error /\ authLast.before.refresh

\* The outcome of the last grant the last authenticate() call issued.
LastGrant == IF authLast.login # "none" THEN authLast.login ELSE authLast.refresh

\* The stored token is the one the server issued last.
HoldsNewestToken ==
    tokenResponse # NoToken /\ ~tokenResponse.error /\ tokenResponse.access = grantSeq - 1

DiscoveryFailures ==
    {"DiscoveryDocumentError", "Error: Could not retrieve discovery document"}

AuthFailures == {"OidcAuthenticationError", "Error: Failed to authenticate."}

\* C16: if the refresh-token grant of a call fails (the request is rejected
\* or returns an error response), authenticate() falls back to a password
\* grant, and when that login succeeds the call completes successfully with
\* the login's access token.
C16_RefreshFailureFallsBack ==
    (authLast.called /\ authLast.refresh \in {"reject", "error"}) =>
        /\ authLast.login # "none"
        /\ authLast.login \in {"ok", "ok_rt"} =>
              (authLast.thrown = "none" /\ HoldsNewestToken)

\* C17 as stated: a refresh grant is issued only with a stored error-free
\* token that has a refresh token; without one the call issues no refresh
\* grant and exactly one password grant; a successful refresh is followed by
\* no password grant and the stored token is the refreshed one.
C17_GrantChoice ==
    authLast.called =>
        /\ authLast.refresh # "none" => HadRefreshToken
        /\ ~HadRefreshToken => (authLast.refresh = "none" /\ authLast.login # "none")
        /\ authLast.refresh \in {"ok", "ok_rt"} =>
              (authLast.login = "none" /\ authLast.thrown = "none" /\ HoldsNewestToken)

\* C17, amended: as stated, except that without a refreshable token the call
\* issues exactly one password grant when the discovery document is cached or
\* its fetch succeeds, and no grant at all when the fetch fails.
C17_GrantChoiceGivenDiscovery ==
    authLast.called =>
        /\ authLast.refresh # "none" => HadRefreshToken
        /\ ~HadRefreshToken =>
              /\ authLast.refresh = "none"
              /\ authLast.fetch # "fail" => authLast.login # "none"
              /\ authLast.fetch = "fail" => authLast.login = "none"
        /\ authLast.refresh \in {"ok", "ok_rt"} =>
              (authLast.login = "none" /\ authLast.thrown = "none" /\ HoldsNewestToken)

\* A call has refreshed a token, and the refreshed one is stored.
C17_Witness ==
    /\ authLast.called
    /\ HadRefreshToken
    /\ authLast.refresh = "ok"
    /\ authLast.login = "none"
    /\ tokenResponse.access = grantSeq - 1
    /\ tokenResponse.access > authLast.before.access

\* C18: if fetching the discovery document fails, authenticate() raises a
\* discovery failure, requests neither a password grant nor a refresh grant,
\* and leaves no discovery document cached.
C18_DiscoveryFailure ==
    (authLast.called /\ authLast.fetch = "fail") =>
        /\ authLast.thrown \in DiscoveryFailures
        /\ authLast.login = "none"
        /\ authLast.refresh = "none"
        /\ ~configInstance
        /\ tokenResponse = authLast.before

C18_Witness ==
    /\ authLast.called
    /\ authLast.fetch = "fail"
    /\ authLast.thrown \in DiscoveryFailures
    /\ ~authLast.cfgBefore
    /\ ~configInstance

\* C19 as stated: authenticate() returns normally only with a stored token
\* that is non-null and without error; and when a grant of the call returns a
\* response containing an error, the call raises an authentication failure
\* and the stored token is cleared.
C19_ErrorResponseRaises ==
    authLast.called =>
        /\ authLast.thrown = "none" => (tokenResponse # NoToken /\ ~tokenResponse.error)
        /\ (authLast.refresh = "error" \/ authLast.login = "error") =>
              (authLast.thrown \in AuthFailures /\ tokenResponse = NoToken)

\* C19, amended: authenticate() returns normally only with a stored token
\* that is non-null and without error; and when the last grant the call
\* issues returns a response containing an error, the call raises an
\* authentication failure and the stored token is cleared.
C19_LastErrorResponseRaises ==
    authLast.called =>
        /\ authLast.thrown = "none" => (tokenResponse # NoToken /\ ~tokenResponse.error)
        /\ LastGrant = "error" =>
              (authLast.thrown \in AuthFailures /\ tokenResponse = NoToken)

\* A stored token was cleared by a call whose last grant returned an error.
C19_Witness ==
    /\ authLast.called
    /\ authLast.before # NoToken
    /\ LastGrant = "error"
    /\ authLast.thrown \in AuthFailures
    /\ tokenResponse = NoToken

\* The step is a call of authenticate(), made directly or by auth(client).
AuthenticateCall ==
    /\ authLast'.called
    /\ authCall'.authenticated \/ (authCall' = NoAuthClientCall /\ connected' = connected)

\* C20: a call fetches the discovery document exactly when none is cached; a
\* successful fetch caches it, a cached document stays cached and is reused
\* by every later call, and a failed fetch leaves none cached, so that the
\* next call fetches again.
C20_DiscoveryCache ==
    [][AuthenticateCall =>
          /\ configInstance => (authLast'.fetch = "none" /\ configInstance')
          /\ ~configInstance => authLast'.fetch \in {"ok", "fail"}
          /\ authLast'.fetch = "ok" => configInstance'
          /\ authLast'.fetch = "fail" => ~configInstance'
          /\ authLast'.cfgBefore = configInstance]_vars

\* The cached document was reused by a call made after MaxGrants tokens had
\* been issued.
C20_Witness ==
    /\ authLast.called
    /\ authLast.cfgBefore
    /\ authLast.fetch = "none"
    /\ configInstance
    /\ grantSeq = MaxGrants + 1

\* C21: auth(client) on an already connected client is a no-op: it requests
\* no token and leaves the stored token and the client's username, password
\* and client id unchanged.  On a client that is not connected it sets the
\* username to the access token only after authenticate() has succeeded; if
\* authenticate() fails, the client's options are unchanged.
C21_AuthClient ==
    [][(authCall'.called /\ authCall'.client) =>
          /\ authCall'.conn =>
                /\ authCall'.thrown = "none"
                /\ ~authCall'.authenticated
                /\ UNCHANGED <<tokenResponse, configInstance, grantSeq, authLast, options>>
          /\ ~authCall'.conn =>
                /\ authCall'.authenticated
                /\ authLast'.before = tokenResponse
                /\ authLast'.thrown # "none" =>
                      (authCall'.thrown # "none" /\ options' = options)
                /\ authCall'.thrown # "none" => options' = options
                /\ authCall'.thrown = "none" =>
                      /\ authLast'.thrown = "none"
                      /\ tokenResponse' # NoToken
                      /\ ~tokenResponse'.error
                      /\ options'.username = tokenResponse'.access
                      /\ options'.password = ""]_vars

\* auth(client) has failed on a client that carries the token of an earlier
\* call, and then succeeded with a newer token.
C21_Witness ==
    /\ authCall.called
    /\ authCall.client
    /\ ~authCall.conn
    /\ authCall.thrown = "none"
    /\ options.username = tokenResponse.access
    /\ options.username >= 2
    /\ options.clientId = "generated"

\* C22: every recoverable failure handled inside the pipeline (a failed
\* authentication, a failed connection attempt, a failed publish) is surfaced
\* by triggering the OnError signal: the step that handles the failure
\* triggers it.
C22_FailuresSurfaced ==
    [][(fails' = fails + 1 \/ ~(pubErr' \subseteq pubErr)) => emitted'.name = "OnError"]_vars

\* C23: trigger() invokes every subscribed listener even when an earlier
\* listener throws, and trigger() itself does not throw.
C23_AllNotified ==
    sigLast = "trigger" => (Range(notified) = Range(listeners) /\ ~sigThrown)

\* The step is the publish callback of some event reporting an error.
PublishErrorStep == ~(pubErr' \subseteq pubErr)

\* C24: when the transport reports an error for a publish, the sink forces
\* the transport closed, so that IsConnected becomes false, and the publish
\* failure does not stop the monitor (which then makes a new attempt).
C24_PublishErrorCloses ==
    [][PublishErrorStep => (~connected' /\ monTask' /\ monPc' = monPc)]_vars

\* The step is a connection attempt of the monitor failing.
AttemptFailedStep == fails' = fails + 1

\* C25: a failed connection attempt of any kind never terminates the monitor
\* loop: the monitor sleeps the backoff delay and attempts again, and the loop
\* exits only when its cancellation flag is set.
C25_FailureKeepsMonitor ==
    [][/\ (monPc' = "done" /\ monPc # "done") => monCancel = "cancelled"
       /\ AttemptFailedStep =>
             (monPc \in {"auth", "connect"} /\ monPc' = "after" /\ monTask' /\ ~connected')
       /\ (monPc = "after" /\ monPc' # "after" /\ ~connected) =>
             (monPc' = "backoff" /\ delayMs' > 0)
       /\ (monPc = "backoff" /\ monPc' # "backoff") => monPc' = "check"
       /\ (monPc = "check" /\ monPc' # "check" /\ monCancel # "cancelled" /\ ~connected) =>
             (monPc' = "auth" /\ attempt' = attempt + 1)]_vars

\* After MaxAttempt - 1 consecutive failures the monitor is attempting again.
C25_Witness ==
    /\ monPc = "auth"
    /\ monCancel = "live"
    /\ fails = MaxAttempt - 1
    /\ attempt = MaxAttempt
    /\ delayMs = MaxReconnectDelayMs

\* C26: the attempt counter is incremented once per connection attempt made
\* while disconnected and reset to 0 by a successful connect, so that the
\* first failed attempt of an outage is followed by the base delay of 5000
\* ms; while the sink is connected the monitor makes no attempt and calls
\* neither auth nor connect.
C26_AttemptCounter ==
    [][/\ (monPc = "check" /\ monPc' = "auth") => (~connected /\ attempt' = attempt + 1)
       /\ attempt' > attempt => (monPc = "check" /\ monPc' = "auth" /\ attempt' = attempt + 1)
       /\ (~connected /\ connected') => (monPc = "connect" /\ attempt' = 0)
       /\ attempt' < attempt =>
             (attempt' = 0 /\ (connected' \/ (monPc = "done" /\ monPc' = "check")))
       /\ (monPc = "after" /\ monPc' = "backoff" /\ fails = 1) =>
             (attempt = 1 /\ delayMs' = 5000)
       /\ monPc' \in {"auth", "connect"} => ~connected'
       /\ (connected /\ monPc = "check" /\ monPc' # "check" /\ monCancel # "cancelled") =>
             (monPc' = "poll" /\ attempt' = attempt)]_vars

\* In a later outage, after events were acknowledged over an earlier
\* connection, the first failed attempt is followed by the base delay.
C26_Witness ==
    /\ monPc = "backoff"
    /\ fails = 1
    /\ attempt = 1
    /\ delayMs = 5000
    /\ acked # {}

\* C27: every backoff delay the monitor sleeps while the sink is not
\* connected lies between 5000 ms and 60000 ms inclusive, in every
\* interleaving of connection attempts with connects and disconnects
\* reported by the transport.
C27_BackoffBounds ==
    monPc = "backoff" => (delayMs >= 5000 /\ delayMs <= 60000)

\* C28: an entry leaves the in-flight map only through the ack path: the sink
\* raises OnMessageAck with the message id of the published event when the
\* broker confirms that publish, and the facade forwards it to markMessageAck;
\* a publish that completes without a confirmation, a publish failure or a
\* disconnect does not remove the entry.
C28_OnlyAckRetires ==
    [][/\ \A e \in Ids :
            (InFlightHas(e) /\ e \notin Range(inFlight')) =>
                (emitted' = [name |-> "OnMessageAck", arg |-> e] /\ e \in pending /\ connected)
       /\ emitted'.name = "OnMessageAck" =>
             /\ emitted'.arg \in pending
             /\ emitted'.arg \notin Range(inFlight')
             /\ Range(inFlight') = Range(inFlight) \ {emitted'.arg}
       /\ (PublishErrorStep \/ (connected /\ ~connected')) => inFlight' = inFlight
       /\ (emitted'.name # "OnMessageAck" /\ ~(pending \subseteq pending')) =>
             Range(inFlight) \subseteq Range(inFlight')]_vars

\* One event was acknowledged and retired; another, whose publish failed,
\* is still in the in-flight map, the connection being down.
C28_Witness ==
    /\ acked # {}
    /\ ~connected
    /\ \E e \in pubErr : InFlightHas(e) /\ e \notin acked
    /\ \A e \in acked : ~InFlightHas(e)

\* The step is a pump iteration that is not cancelled.
PumpTick == pumpPc = "loop" /\ pumpPc' # "loop" /\ ~cancelled

\* C29: a pump iteration that finds the sink not connected skips the tick: it
\* dequeues nothing and publishes nothing, leaving the queue (contents and
\* order) and the in-flight map unchanged.
C29_SkipWhenNotConnected ==
    [][(PumpTick /\ ~connected) =>
          /\ pumpPc' = "delay"
          /\ emitted'.name = "warn: Sink is not connected"
          /\ UNCHANGED <<items, inFlight, pending, batch>>]_vars

\* The tick was skipped with events in the queue and in the in-flight map.
C29_Witness ==
    /\ emitted.name = "warn: Sink is not connected"
    /\ pumpPc = "delay"
    /\ ~connected
    /\ items # <<>>
    /\ inFlight # <<>>

\* How many times e occurs in the queue q.
Count(q, e) == Cardinality({i \in 1..Len(q) : q[i] = e})

\* C30: within one pump batch every event dequeued in the iteration has its
\* publish attempted, each event whose publish fails is requeued exactly
\* once, and no event whose publish succeeds is requeued.
C30_BatchIsolation ==
    [][\A e \in Ids :
          /\ (PumpTick /\ InQueue(e) /\ ~InQueue(e)') =>
                (e \in Range(batch') \/ e \in pending')
          /\ (e \in Range(batch) /\ e \notin Range(batch')) =>
                (e \in pending \/ e \in pending' \/ e \in requeued')
          /\ e \in pubErr' \ pubErr =>
                (e \in requeued' /\ Count(items', e) = 1)
          /\ e \in acked' \ acked =>
                (e \notin requeued' /\ Count(items', e) = Count(items, e))]_vars

\* The pump leaves its loop: the cancellation check of runEventLoop's while.
PumpExit == pumpPc # "exited" /\ pumpPc' = "exited"

\* C31: the pump's cancellation flag is checked only between iterations: the
\* loop exits only at its check, and when it exits after a stop() requested
\* during an iteration, no event that iteration dequeued is left behind:
\* none waits in the batch and none has a publish still outstanding.
C31_CancelBetweenIterations ==
    [][PumpExit => (/\ pumpPc = "loop"
                    /\ cancelled
                    /\ batch = <<>>
                    /\ pending = {})]_vars

\* C32: an event whose publish failed is reinserted at the tail of the
\* queue, behind every event queued at that moment: the step on which the
\* publish of e fails leaves the queue as it was and appends e.
C32_FailedGoesToTail ==
    [][\A e \in Ids :
          e \in pubErr' \ pubErr =>
              /\ Len(items') > Len(items)
              /\ SubSeq(items', 1, Len(items)) = items
              /\ items'[Len(items) + 1] = e]_vars

\* C33: the pump and the ack callback never lose an update of the in-flight
\* map: an ack for X removes X's entry and no other, every event a pump
\* iteration takes from the queue is in the map after that step, no step but
\* an ack takes an entry out, and once every event that left the queue has
\* been acknowledged and none has failed the map is empty.
C33_NoLostUpdate ==
    /\ []((/\ \A e \in Sent : InQueue(e) \/ e \in acked
           /\ pubErr = {}
           /\ requeued = {}) => inFlight = <<>>)
    /\ [][/\ emitted'.name = "OnMessageAck" =>
                /\ Range(inFlight') = Range(inFlight) \ {emitted'.arg}
                /\ Len(inFlight') = Len(inFlight) - 1
          /\ \A e \in Ids :
                /\ (PumpTick /\ InQueue(e) /\ ~InQueue(e)') => InFlightHas(e)'
                /\ (InFlightHas(e) /\ ~InFlightHas(e)') =>
                      emitted' = [name |-> "OnMessageAck", arg |-> e]]_vars

\* An ack has just retired one entry while the publish of another event,
\* dequeued by the pump, is outstanding and its entry is in the map.
C33_Witness ==
    /\ emitted.name = "OnMessageAck"
    /\ ~InFlightHas(emitted.arg)
    /\ \E e \in pending : e # emitted.arg /\ InFlightHas(e)

\* stop() is inside its locked section, awaiting the monitor.
InStop == stopPc = "awaitMon"

\* A sendMessageAsync() is inside its locked section, awaiting its publish.
InSend == rev = "promise" /\ pumpPc = "batch"

\* The step is a start() that ran its locked section.
StartStep == StartCall \/ (~monTask /\ monTask')

\* C34: start(), stop() and sendMessageAsync() exclude each other: a stop and
\* a send are never inside their locked sections together and a start runs
\* its section only while neither is; the lock is held exactly while one of
\* them is inside, so every exit path has released it; and whoever holds the
\* lock can always be let out: a stop by the monitor's next step or its own
\* return, a send by the outcome of its publish.
C34_LockExcludes ==
    /\ [](/\ ~(InStop /\ InSend)
          /\ (mutex = "stop") = InStop
          /\ (mutex = "send") = InSend
          /\ (~InStop /\ ~InSend) => mutex = "free"
          /\ InStop => ENABLED (MonCheck \/ MonAfter \/ MonWake \/ StopFinish
                                   \/ \E ok \in BOOLEAN : MonAuth(ok) \/ MonConnect(ok))
          /\ InSend => ENABLED (\E e \in Ids : PublishOkPromise(e) \/ PublishErrPromise(e)))
    /\ [][StartStep => (~InStop /\ ~InSend /\ mutex = "free" /\ mutex' = "free")]_vars

\* start() is called on a started sink and throws while the monitor runs;
\* the lock is free again and a send then takes it.
C34_Witness ==
    /\ InSend
    /\ last.op = "start"
    /\ last.thrown # "none"
    /\ stopPc = "awaitPump"

\* The monitor loops that are running: the sink's own and the detached ones.
MonitorsAlive == orphans + (IF monTask /\ monPc # "done" THEN 1 ELSE 0)

\* C35: at most one connection monitor loop is alive per sink at any time,
\* for every interleaving of start(), stop() and dispose(), and a new monitor
\* is launched only when no earlier monitor is still running.
C35_SingleMonitor ==
    /\ [](MonitorsAlive <= 1)
    /\ [][(~monTask /\ monTask') => MonitorsAlive = 0]_vars

\* How far the monitor is from its exit once its token is cancelled: the steps
\* left of the attempt in progress, then one sleep, then the check.
MonRank(pc) ==
    CASE pc = "auth" -> 5
      [] pc = "connect" -> 4
      [] pc = "after" -> 3
      [] pc \in {"backoff", "poll"} -> 2
      [] pc = "check" -> 1
      [] OTHER -> 0

\* C38: the sink's stop() terminates: once stop() has cancelled the token the
\* monitor starts no new connection attempt and every step it takes brings
\* it nearer to its exit, through at most the attempt in progress and one
\* sleep; and a stop() that awaits the monitor returns.
C38_StopTerminates ==
    /\ [][(InStop /\ monTask /\ monPc' # monPc) =>
             /\ monPc' # "auth"
             /\ attempt' <= attempt
             /\ MonRank(monPc') < MonRank(monPc)]_vars
    /\ (InStop ~> stopPc = "stopped")

\* stop() awaits a monitor that is in an attempt, in its backoff, or polling
\* while connected.
C38_Witness ==
    /\ InStop
    /\ monTask
    /\ monCancel = "cancelled"
    /\ monPc \in {"auth", "connect", "backoff", "poll"}

\* C39: the facade's stop() is final for the pump: the cancellation token,
\* once cancelled, stays cancelled through every later call; a start() after
\* stop() starts the sink again, with a new monitor and a new event loop,
\* but that loop exits at its first check without touching the queue, and
\* from then on events are appended to the queue and never dequeued.
C39_StopIsFinal ==
    [][/\ cancelled => cancelled'
       /\ (cancelled /\ ~monTask /\ monTask') =>
             (client' /\ monPc' = "check" /\ monCancel' = "live" /\ pumpPc' = "loop")
       /\ (cancelled /\ pumpPc = "loop" /\ pumpPc' # "loop") =>
             (pumpPc' = "exited" /\ UNCHANGED <<items, inFlight, pending, batch>>)
       /\ (cancelled /\ pumpPc # "batch") =>
             (Len(items') >= Len(items) /\ SubSeq(items', 1, Len(items)) = items)]_vars

\* After a stop() the SDK was started again: the sink is connected, the new
\* event loop has exited, and an event that was sent waits in the queue.
C39_Witness ==
    /\ cancelled
    /\ stopPc = "none"
    /\ monTask
    /\ connected
    /\ pumpPc = "exited"
    /\ acked # {}
    /\ items # <<>>
    /\ last.op = "sendMessage"

\* C37 as stated: no message id occurs more than once in the queue in any
\* reachable state, reEnqueueAll calls included.
C37_NoDuplicateIds ==
    \A e \in Ids : Count(items, e) <= 1

\* C37, amended: no message id occurs more than once in the queue as long as
\* reEnqueueAll has not moved an in-flight entry back to the queue, for every
\* interleaving of sends of distinct events, pump dequeues, failure requeues
\* and acks.
C37_NoDuplicateIdsUntilRecovered ==
    ~recovered => \A e \in Ids : Count(items, e) <= 1

\* A failed publish has been requeued and is waiting behind another event,
\* and reEnqueueAll has moved nothing.
C37_Witness ==
    /\ ~recovered
    /\ requeued # {}
    /\ Len(items) = 2
    /\ \E e \in requeued : items[2] = e /\ InFlightHas(e)

\* C36: every invocation of the whole-queue event loop completes its cycle:
\* a drain loop that has been entered ends, also when the sink loses its
\* connection during the cycle and the remaining publishes fail and are
\* requeued.
C36_CycleCompletes ==
    (wqPc # "idle") ~> (wqPc = "idle")

====
